---------------------------- MODULE Spec2Model ----------------------------
(***************************************************************************)
(* A model of GrahamScan (grahamscan.h): the convex hull of a sequence of  *)
(* 2D points by anchor selection, angular sort and a stack-based sweep.    *)
(*                                                                         *)
(* Points are pairs <<x, y>> of small integers.  The source works on       *)
(* Vector<2> of doubles; on small integers every difference, product and   *)
(* sum below is exact in double arithmetic, so the integer model computes  *)
(* the same signs as the code.                                             *)
(***************************************************************************)
EXTENDS Integers, Sequences, FiniteSets, TLC

VARIABLES input, pc, minY, points, result, i, out, oob, steps, prevOut

vars == <<input, pc, minY, points, result, i, out, oob, steps, prevOut>>

(* input   the range [begin, end) handed to GrahamScan                     *)
(* pc      where the call is: idle, start, sweep (the for loop), done      *)
(* minY    the position min_element returned (0 before it has run)         *)
(* points  the sorted local copy, the anchor appended                      *)
(* result  the stack of the candidate hull                                 *)
(* i       the loop index of the sweep, counted from 1                     *)
(* out     what has been copied to the output range                        *)
(* oob     the turn test has read outside the stack                        *)
(* steps   the number of steps the current call has taken                  *)
(* prevOut the output of the previous call of a repeated call              *)

(* Bounds of the model: coordinates range over 0..MaxX and 0..MaxY, and an *)
(* input holds at most MaxLen points.                                      *)
MaxX == 2
MaxY == 2
MaxLen == 5

Grid == (0..MaxX) \X (0..MaxY)

Inputs == UNION {[1..n -> Grid] : n \in 0..MaxLen}

Front(s) == SubSeq(s, 1, Len(s) - 1)

(***************************************************************************)
(* Vector arithmetic (matrix.h).                                           *)
(***************************************************************************)
Sub(a, b) == <<a[1] - b[1], a[2] - b[2]>>

NormSquared(v) == v[1] * v[1] + v[2] * v[2]

(* The 2D cross product of the turn test, last[0]*curr[1] - last[1]*curr[0] *)
Cross(a, b) == a[1] * b[2] - a[2] * b[1]

(***************************************************************************)
(* The comparators of grahamscan_detail.                                   *)
(***************************************************************************)
CompareYCoordinates(lhs, rhs) ==
    \/ lhs[2] < rhs[2]
    \/ lhs[2] = rhs[2] /\ lhs[1] < rhs[1]

CompareByAngle(origin, lhs, rhs) ==
    LET l == Sub(lhs, origin)
        r == Sub(rhs, origin)
        c == Cross(l, r)
    IN  IF c # 0 THEN c > 0 ELSE NormSquared(l) < NormSquared(r)

(***************************************************************************)
(* std::min_element: a left-to-right scan that replaces the smallest so    *)
(* far only by a strictly smaller element, so the first minimum wins.      *)
(***************************************************************************)
RECURSIVE MinScan(_, _, _)
MinScan(s, k, best) ==
    IF k > Len(s) THEN best
    ELSE MinScan(s, k + 1, IF CompareYCoordinates(s[k], s[best]) THEN k ELSE best)

MinElementFirstIndex(s) == 1

MinElement(s) == MinScan(s, 2, 1)

(* points.insert(begin, minY); points.insert(next, end): the input without *)
(* the element minY points at.                                             *)
WithoutMin(s, m) == SubSeq(s, 1, m - 1) \o SubSeq(s, m + 1, Len(s))

(***************************************************************************)
(* std::sort: any arrangement of the same elements in which no element is  *)
(* ordered before one of its predecessors.  The order of elements the      *)
(* comparator leaves unordered is unspecified, so every such arrangement   *)
(* is a possible result.                                                   *)
(***************************************************************************)
IsSorted(s, origin) ==
    \A j, k \in DOMAIN s : j < k => ~CompareByAngle(origin, s[k], s[j])

Arrangements(s) ==
    {[k \in DOMAIN s |-> s[p[k]]] : p \in Permutations(DOMAIN s)}

Unsorted(s, origin) == {s}

Sorted(s, origin) == {t \in Arrangements(s) : IsSorted(t, origin)}

(***************************************************************************)
(* The pieces of GrahamScan.                                               *)
(***************************************************************************)
SmallInputBelowTwo(s) == Len(s) < 2

SmallInput(s) == Len(s) < 3

InitialHull(anchor, pts) == <<anchor, pts[1]>>

(* The values the turn test can compute.  With fewer than two points on    *)
(* the stack result[size-2] (and, on an empty stack, result[size-1]) is    *)
(* read out of bounds: the value is then whatever memory holds.            *)
TurnValues(res, p) ==
    IF Len(res) >= 2
    THEN {Cross(Sub(res[Len(res)], res[Len(res) - 1]), Sub(p, res[Len(res)]))}
    ELSE {-1, 0, 1}

KeepsStrictlyLeft(t) == t > 0

KeepsAlways(t) == TRUE

Keeps(t) == t >= 0

FinalHullWithDuplicate(res) == res

FinalHull(res) == Front(res)

(***************************************************************************)
(* The state machine: one call of GrahamScan on `input`.                   *)
(***************************************************************************)
Init ==
    /\ input = <<>>
    /\ pc = "idle"
    /\ minY = 0
    /\ points = <<>>
    /\ result = <<>>
    /\ i = 0
    /\ out = <<>>
    /\ oob = FALSE
    /\ steps = 0
    /\ prevOut = <<"none">>

(* The caller invokes GrahamScan on a range of points of its choice.       *)
Call ==
    /\ pc = "idle"
    /\ input' \in Inputs
    /\ pc' = "start"
    /\ UNCHANGED <<minY, points, result, i, out, oob, steps, prevOut>>

(* Fewer than three points: copy the input to the output.                  *)
CopySmall ==
    /\ pc = "start"
    /\ SmallInput(input)
    /\ out' = input
    /\ pc' = "done"
    /\ steps' = steps + 1
    /\ UNCHANGED <<input, minY, points, result, i, oob, prevOut>>

(* Anchor selection, the sorted copy with the anchor appended, and the     *)
(* initial stack; the sweep starts at the second sorted point.             *)
Setup ==
    /\ pc = "start"
    /\ ~SmallInput(input)
    /\ \E m \in {MinElement(input)} :
          /\ minY' = m
          /\ \E s \in Sorted(WithoutMin(input, m), input[m]) :
                /\ points' = Append(s, input[m])
                /\ result' = InitialHull(input[m], s)
    /\ i' = 2
    /\ pc' = "sweep"
    /\ steps' = steps + 1
    /\ UNCHANGED <<input, out, oob, prevOut>>

(* The turn test fails: result.pop_back() and test again.                  *)
PopBack ==
    /\ pc = "sweep"
    /\ i <= Len(points)
    /\ \E t \in TurnValues(result, points[i]) : ~Keeps(t)
    /\ result' = IF Len(result) = 0 THEN result ELSE Front(result)
    /\ oob' = (oob \/ Len(result) < 2)
    /\ steps' = steps + 1
    /\ UNCHANGED <<input, pc, minY, points, i, out, prevOut>>

(* The turn test succeeds: break, push points[i] and advance.              *)
PushPoint ==
    /\ pc = "sweep"
    /\ i <= Len(points)
    /\ \E t \in TurnValues(result, points[i]) : Keeps(t)
    /\ result' = Append(result, points[i])
    /\ i' = i + 1
    /\ oob' = (oob \/ Len(result) < 2)
    /\ steps' = steps + 1
    /\ UNCHANGED <<input, pc, minY, points, out, prevOut>>

(* The loop is over: drop the duplicate anchor and copy the hull out.      *)
Finish ==
    /\ pc = "sweep"
    /\ i > Len(points)
    /\ out' = FinalHull(result)
    /\ pc' = "done"
    /\ steps' = steps + 1
    /\ UNCHANGED <<input, minY, points, result, i, oob, prevOut>>

(* A step of the call in progress.                                         *)
Step == CopySmall \/ Setup \/ PopBack \/ PushPoint \/ Finish

Next == Call \/ Step

Spec == Init /\ [][Next]_vars

(***************************************************************************)
(* A caller that, once a call has returned, calls GrahamScan again on the  *)
(* same points with two neighbours exchanged, keeping the earlier output.  *)
(***************************************************************************)
SwapAt(s, k) ==
    [j \in DOMAIN s |-> IF j = k THEN s[k + 1] ELSE IF j = k + 1 THEN s[k] ELSE s[j]]

CallAgain ==
    /\ pc = "done"
    /\ \E k \in 1..(Len(input) - 1) : input' = SwapAt(input, k)
    /\ prevOut' = out
    /\ pc' = "start"
    /\ minY' = 0
    /\ points' = <<>>
    /\ result' = <<>>
    /\ i' = 0
    /\ out' = <<>>
    /\ oob' = FALSE
    /\ steps' = 0

NextPerm == Next \/ CallAgain

PermSpec == Init /\ [][NextPerm]_vars

(***************************************************************************)
(* Geometry used to state the properties.                                  *)
(***************************************************************************)
Range(s) == {s[k] : k \in DOMAIN s}

Count(s, v) == Cardinality({k \in DOMAIN s : s[k] = v})

Returned == pc = "done" /\ Len(input) >= 3

Anchor == input[minY]

Succ(k, n) == IF k = n THEN 1 ELSE k + 1

Pred(k, n) == IF k = 1 THEN n ELSE k - 1

(* The directed line u -> v has every point of S on it or to its left.     *)
Supports(u, v, S) == u # v /\ \A p \in S : Cross(Sub(v, u), Sub(p, u)) >= 0

(* q lies on the segment from u to v, strictly between its ends.           *)
Between(q, u, v) ==
    /\ q # u /\ q # v
    /\ Cross(Sub(v, u), Sub(q, u)) = 0
    /\ (q[1] - u[1]) * (q[1] - v[1]) <= 0
    /\ (q[2] - u[2]) * (q[2] - v[2]) <= 0

(* q lies on an edge of the convex hull of S without being a vertex.       *)
OnHullEdge(q, S) == \E u, v \in S : Supports(u, v, S) /\ Between(q, u, v)

(* q lies in the interior of the convex hull of S.                         *)
StrictlyInside(q, S) ==
    /\ \E u, v, w \in S : Cross(Sub(v, u), Sub(w, u)) # 0
    /\ \A u, v \in S : Supports(u, v, S) => Cross(Sub(v, u), Sub(q, u)) > 0

(* q lies on the edge that returns to the anchor a, and that edge is not   *)
(* also the first edge: no point is at a larger angle about a, some point  *)
(* is at a smaller one.                                                    *)
OnClosingEdge(q, a, S) ==
    /\ \A p \in S : Cross(Sub(q, a), Sub(p, a)) <= 0
    /\ \E p \in S : Cross(Sub(q, a), Sub(p, a)) < 0

(* C1: for an input of size >= 3 every input point is on or to the left of *)
(* every directed edge of the output polygon, the closing edge included.   *)
C1_AllPointsInsideOutput ==
    Returned =>
        \A k \in DOMAIN out : \A q \in Range(input) :
            Cross(Sub(out[Succ(k, Len(out))], out[k]), Sub(q, out[k])) >= 0

(* C2: for an input of size >= 3 no input point strictly inside the convex *)
(* hull of the input appears in the output.                                *)
C2_NoInteriorPointInOutput ==
    Returned => \A k \in DOMAIN out : ~StrictlyInside(out[k], Range(input))

(* C3 as claimed: for an input of size >= 3 every input point lying on an  *)
(* edge of the convex hull is in the output, whichever edge it is on.      *)
C3_EdgePointsRetained ==
    Returned =>
        \A q \in Range(input) : OnHullEdge(q, Range(input)) => q \in Range(out)

(* C3 as amended: every input point lying on a hull edge is in the output  *)
(* unless it lies on the closing edge back to the anchor (and that edge is *)
(* not also the first edge); and a pop happens only on a strictly negative *)
(* cross product.                                                          *)
C3_EdgePointsRetainedExceptClosing ==
    /\ [](Returned =>
            \A q \in Range(input) :
                /\ OnHullEdge(q, Range(input))
                /\ ~OnClosingEdge(q, Anchor, Range(input))
                => q \in Range(out))
    /\ [][pc = "sweep" /\ pc' = "sweep" /\ Len(result') < Len(result) =>
            /\ Len(result) >= 2
            /\ Cross(Sub(result[Len(result)], result[Len(result) - 1]),
                     Sub(points[i], result[Len(result)])) < 0]_vars

(* A point on the first edge, one on a middle edge and a zero cross        *)
(* product at the turn test have all been kept.                            *)
C3_Witness ==
    /\ Returned
    /\ \E q \in Range(input) :
          /\ OnHullEdge(q, Range(input))
          /\ ~OnClosingEdge(q, Anchor, Range(input))
          /\ Cross(Sub(q, Anchor), Sub(out[2], Anchor)) # 0
          /\ q \in Range(out)
    /\ \E q \in Range(input) :
          /\ OnHullEdge(q, Range(input))
          /\ OnClosingEdge(q, Anchor, Range(input))
          /\ q \notin Range(out)

(* C4: for an input of size >= 3 no three cyclically consecutive output    *)
(* points make a clockwise turn.                                           *)
C4_NoClockwiseTurn ==
    Returned =>
        \A k \in DOMAIN out :
            Cross(Sub(out[k], out[Pred(k, Len(out))]),
                  Sub(out[Succ(k, Len(out))], out[k])) >= 0

(* A hull of four or more vertices with a strict left turn and a straight  *)
(* (collinear) triple.                                                     *)
C4_Witness ==
    /\ Returned
    /\ Len(out) >= 4
    /\ \E k \in DOMAIN out :
          Cross(Sub(out[k], out[Pred(k, Len(out))]),
                Sub(out[Succ(k, Len(out))], out[k])) > 0
    /\ \E k \in DOMAIN out :
          /\ Cross(Sub(out[k], out[Pred(k, Len(out))]),
                   Sub(out[Succ(k, Len(out))], out[k])) = 0
          /\ out[k] # out[Pred(k, Len(out))]
          /\ out[k] # out[Succ(k, Len(out))]
    /\ Len(out) < Len(input)

(* C5: an input of fewer than 3 points is written to the output as it is,  *)
(* in its order, with anchor selection, sort and sweep skipped.            *)
C5_SmallInputCopied ==
    pc = "done" /\ Len(input) < 3 =>
        /\ out = input
        /\ Len(out) = Len(input)
        /\ minY = 0 /\ points = <<>> /\ result = <<>> /\ i = 0

(* Two points given in descending order come back in that order.           *)
C5_Witness ==
    /\ pc = "done"
    /\ Len(input) = 2
    /\ CompareYCoordinates(input[2], input[1])
    /\ out = input

(* C6: the output is a sub-multiset of the input.                          *)
C6_OutputSubMultiset ==
    pc = "done" =>
        /\ \A k \in DOMAIN out : Count(out, out[k]) <= Count(input, out[k])
        /\ Len(out) <= Len(input)

(* A hull that drops an input point and holds a duplicated point twice.    *)
C6_Witness ==
    /\ Returned
    /\ Len(out) < Len(input)
    /\ \E k \in DOMAIN out : Count(out, out[k]) = 2

Remaining ==
    CASE pc = "start" -> 2 * Len(input) + 2
      [] pc = "sweep" -> 2 * (Len(points) + 1 - i) + Len(result) + 1
      [] OTHER -> 0

(* C8: on every input of size >= 3 the call returns: until it has returned *)
(* a step is always possible, and the steps taken plus what remains never  *)
(* exceed 2n + 2 for n input points (so neither the pop loop nor the sweep *)
(* can run forever); every sorted point and the trailing anchor are        *)
(* processed, nothing is read outside the stack, and on an all-coincident  *)
(* input every output point is that point.                                 *)
C8_TotalOnDegenerateInputs ==
    /\ ~oob
    /\ pc \in {"start", "sweep"} =>
          /\ ENABLED Step
          /\ Remaining > 0
          /\ steps + Remaining <= 2 * Len(input) + 2
    /\ pc = "done" => steps <= 2 * Len(input) + 2
    /\ Returned =>
          /\ i = Len(points) + 1
          /\ Len(points) = Len(input)
          /\ (\A k \in DOMAIN input : input[k] = input[1]) =>
                (out # <<>> /\ \A k \in DOMAIN out : out[k] = input[1])

(* An all-coincident input of more than 3 points has been processed.       *)
C8_Witness ==
    /\ Returned
    /\ Len(input) > 3
    /\ \A k \in DOMAIN input : input[k] = input[1]
    /\ out # <<>>

(* C9: throughout the sweep the stack holds at least 2 points, its bottom  *)
(* is the anchor, and the turn test has never read outside the stack.      *)
C9_StackNeverBelowTwo ==
    /\ ~oob
    /\ pc = "sweep" =>
          /\ Len(result) >= 2
          /\ result[1] = Anchor

(* The pop loop has emptied the stack down to the anchor and the first     *)
(* sorted point, with points still to process.                             *)
C9_Witness ==
    /\ pc = "sweep"
    /\ i > 2
    /\ i <= Len(points)
    /\ Len(result) = 2

(* C10: for inputs of size >= 3 a call on a rearrangement of the same      *)
(* points returns the same output sequence; the points the angular         *)
(* comparator leaves unordered in the sorted copy are identical.           *)
C10_OrderIndependent ==
    /\ Returned /\ prevOut # <<"none">> => out = prevOut
    /\ pc = "sweep" =>
          \A j, k \in 1..(Len(points) - 1) :
              /\ ~CompareByAngle(Anchor, points[j], points[k])
              /\ ~CompareByAngle(Anchor, points[k], points[j])
              => points[j] = points[k]

(* The rearranged call moved the anchor and returned a hull of 3 or more.  *)
C10_Witness ==
    /\ Returned
    /\ prevOut # <<"none">>
    /\ out = prevOut
    /\ Len(out) >= 3
    /\ minY > 1
    /\ input[1] # out[1]

=============================================================================
